---- MODULE Spec2Model ----
(***************************************************************************)
(* A model of the two scripts of clappia-dev/DataCollectionScripts:        *)
(*                                                                         *)
(*   get-all-child-pages.py   the recursive same-site crawler              *)
(*                            (crawl_page, main)                           *)
(*   analyze-reddit-topic.py  the post analysis loop                       *)
(*                            (analyze_reddit_topics and its helpers)      *)
(*                                                                         *)
(* Strings are sequences of tokens ("https://", "ex.com", "/", "b", "#",   *)
(* "dup", ...): str.startswith is the prefix test on token sequences,      *)
(* str.split('#')[0] cuts at the first "#" token and urljoin recombines    *)
(* the tokens of the base and of the href.  The tokens are chosen so that  *)
(* no token is a proper prefix of "https://" or of "/".                    *)
(*                                                                         *)
(* The web is not known in advance: the page a GET returns is chosen when  *)
(* the GET is issued and recorded in web, so that a second GET of the same *)
(* URL would return the same page.                                         *)
(***************************************************************************)
EXTENDS Integers, Sequences, FiniteSets, TLC

VARIABLES
    \* ---- get-all-child-pages.py ----
    pc,             \* position of the crawler: main, enter, get, loop, write, done, crashed
    url,            \* main's url (the input)
    original_url,   \* main's original_url, passed down every crawl_page call
    visited_urls,   \* the set main creates and crawl_page fills
    child_urls,     \* the list main creates and crawl_page appends to
    stack,          \* the active crawl_page calls: <<[url, i]>>, the last is the running one
    site_anchors,   \* the anchors that occur on the pages of the site
    web,            \* the pages the GETs returned so far: URL -> [ok, anchors]
    fetched,        \* history: the URLs a GET was issued for, in order
    csvfile,        \* child_urls.csv: [exists, rows]
    writes,         \* history: how often child_urls.csv was opened for writing
    exc,            \* the exception that ended the run, or "none"
    \* ---- analyze-reddit-topic.py ----
    rpc,            \* position of analyze_reddit_topics: subs, posts, done, crashed
    subreddit_names,
    max_posts,
    sub_idx,        \* index into subreddit_names of the outer loop
    post_idx,       \* number of posts the inner loop took from subreddit.new so far
    posts_analyzed,
    all_results,
    output_file,    \* [exists, rows]
    accepted,       \* history: the posts whose analysis passed the test of line 146
    rexc            \* the exception that ended analyze_reddit_topics, or "none"

crawlerVars == <<pc, url, original_url, visited_urls, child_urls, stack,
                 site_anchors, web, fetched, csvfile, writes, exc>>
redditVars == <<rpc, subreddit_names, max_posts, sub_idx, post_idx, posts_analyzed,
                all_results, output_file, accepted, rexc>>
vars == <<crawlerVars, redditVars>>

----------------------------------------------------------------------------
(* Bounds *)

\* The number of anchors of all fetched pages together.
MaxAnchors == 3

\* The number of posts subreddit.new yields per subreddit.
MaxFeed == 3

\* The largest max_posts argument tried.
MaxMaxPosts == 2

----------------------------------------------------------------------------
(* Strings as token sequences *)

Range(s) == {s[k] : k \in 1..Len(s)}

NoDup(s) == \A j, k \in 1..Len(s) : j # k => s[j] # s[k]

\* str.startswith
StartsWith(s, p) == Len(p) <= Len(s) /\ SubSeq(s, 1, Len(p)) = p

SeqsUpTo(S, n) == UNION {[1..k -> S] : k \in 0..n}

----------------------------------------------------------------------------
(* The inputs: start URLs, hrefs, anchors, pages *)

SiteRoot == <<"https://", "ex.com", "/">>
SiteBare == <<"https://", "ex.com">>
PageB == <<"https://", "ex.com", "/", "b">>
PageC == <<"https://", "ex.com", "/", "c">>
PageD == <<"https://", "ex.com", "/", "d">>

\* What the user may type at the prompt of main.
StartUrls == {SiteRoot, SiteBare, PageB}

HrefB == <<"/", "b">>
HrefD == <<"/", "d">>
HrefRoot == <<"/">>
HrefBDup == <<"/", "b", "#", "dup">>
HrefAbsC == <<"https://", "ex.com", "/", "c">>
HrefOther == <<"https://", "other.com", "/", "x">>
HrefProtoRel == <<"/", "/", "other.com", "/", "x">>
HrefJs == <<"javascript:void(0)">>
HrefEmpty == <<>>

Hrefs == {HrefB, HrefD, HrefRoot, HrefBDup, HrefAbsC, HrefOther,
          HrefProtoRel, HrefJs, HrefEmpty}

\* An <a> element: anchor.get('href') is None when has is FALSE.
Anchor(h) == [has |-> TRUE, href |-> h]
AnchorNoHref == [has |-> FALSE, href |-> <<>>]
Anchors == {Anchor(h) : h \in Hrefs} \cup {AnchorNoHref}

\* One anchor of each kind: two links, an outside link, an empty and a missing href.
CoreAnchors == {Anchor(HrefB), Anchor(HrefRoot), Anchor(HrefOther), Anchor(HrefEmpty),
                AnchorNoHref}

\* What requests.get does for a URL: it returns a response or it raises.
Page(as) == [ok |-> TRUE, anchors |-> as]
FetchError == [ok |-> FALSE, anchors |-> <<>>]

RECURSIVE SumAnchors(_, _)
SumAnchors(w, S) ==
    IF S = {} THEN 0
    ELSE LET u == CHOOSE x \in S : TRUE
         IN  Len(w[u].anchors) + SumAnchors(w, S \ {u})

UsedAnchors == SumAnchors(web, DOMAIN web)

\* The responses a GET of u may get: the recorded one, or any page that fits.
PageChoices(u) ==
    IF u \in DOMAIN web THEN {web[u]}
    ELSE {Page(as) : as \in SeqsUpTo(site_anchors, MaxAnchors - UsedAnchors)}
         \cup {FetchError}

----------------------------------------------------------------------------
(* crawl_page's expressions *)

\* A slip: the anchors are taken last to first.
FindAllReversed(page) ==
    [k \in 1..Len(page.anchors) |-> page.anchors[Len(page.anchors) + 1 - k]]

\* soup.find_all('a'): the anchors in document order (line 30).
FindAll(page) == page.anchors

\* The condition of line 34, (href and href.startswith('https://')) or
\* href.startswith('/'): with href None the left operand is None and the right
\* one calls None.startswith.
HrefCheck(anchor) ==
    IF ~anchor.has THEN "AttributeError"
    ELSE IF (anchor.href # <<>> /\ StartsWith(anchor.href, <<"https://">>))
            \/ StartsWith(anchor.href, <<"/">>)
         THEN "accept"
         ELSE "reject"

\* A slip: the fragment is not cut off.
StripFragmentKept(href) == href

\* href.split('#')[0] (line 36).
StripFragment(href) ==
    LET at == {k \in 1..Len(href) : href[k] = "#"}
    IN  IF at = {} THEN href
        ELSE SubSeq(href, 1, (CHOOSE k \in at : \A j \in at : k <= j) - 1)

\* Scheme and host of an absolute URL: the tokens before the first "/".
Origin(base) ==
    LET at == {k \in 2..Len(base) : base[k] = "/"}
    IN  IF at = {} THEN base
        ELSE SubSeq(base, 1, (CHOOSE k \in at : \A j \in at : k <= j) - 1)

\* The directory of an absolute URL: up to its last "/", or the origin and "/".
BaseDir(base) ==
    LET at == {k \in 2..Len(base) : base[k] = "/"}
    IN  IF at = {} THEN base \o <<"/">>
        ELSE SubSeq(base, 1, CHOOSE k \in at : \A j \in at : k >= j)

\* urllib.parse.urljoin (line 38) for a fragment-free href: empty, absolute,
\* protocol-relative ("//host/.."), root-relative ("/..") or path-relative.
UrlJoin(base, href) ==
    IF href = <<>> THEN base
    ELSE IF href[1] = "https://" THEN href
    ELSE IF Len(href) >= 2 /\ href[1] = "/" /\ href[2] = "/"
         THEN <<base[1]>> \o SubSeq(href, 3, Len(href))
    ELSE IF href[1] = "/" THEN Origin(base) \o href
    ELSE BaseDir(base) \o href

\* Lines 36-38.
AbsoluteUrl(base, href) == UrlJoin(base, StripFragment(href))

\* A slip: only the scheme of original_url is compared.
InScopeSchemeOnly(absolute_url, original) ==
    StartsWith(absolute_url, <<original[1]>>)

\* absolute_url.startswith(original_url) (line 41).
InScope(absolute_url, original) == StartsWith(absolute_url, original)

\* A slip: the list of children is searched instead of the visited set.
AlreadyVisitedInChildren(absolute_url, visited, children) ==
    absolute_url \in Range(children)

\* absolute_url in visited_urls, negated at line 43.
AlreadyVisited(absolute_url, visited, children) == absolute_url \in visited

\* A slip: the URL is not recorded.
VisitedAddDropped(visited, u) == visited

\* visited_urls.add(url) (line 20).
VisitedAdd(visited, u) == visited \cup {u}

\* child_urls.append(absolute_url) (line 45).
ChildAppend(children, absolute_url) == Append(children, absolute_url)

\* A slip: the header row is left out.
CsvRowsNoHeader(children) == children

\* The rows main writes (lines 66-67).
CsvRows(children) == <<"Child URLs">> \o children

----------------------------------------------------------------------------
(* The crawler's steps *)

Top == stack[Len(stack)]
TopPage == web[Top.url]
AtAnchor == pc = "loop" /\ Top.i <= Len(FindAll(TopPage))
CurAnchor == FindAll(TopPage)[Top.i]
CurAbsolute == AbsoluteUrl(Top.url, CurAnchor.href)

Advance == stack' = [stack EXCEPT ![Len(stack)].i = @ + 1]

\* An exception nobody catches: it unwinds every crawl_page call and main.
Raise(e) ==
    /\ pc' = "crashed"
    /\ exc' = e
    /\ stack' = <<>>

\* main calls crawl_page(url, visited_urls, child_urls, original_url) (line 61).
Main ==
    /\ pc = "main"
    /\ stack' = <<[url |-> url, i |-> 1]>>
    /\ pc' = "enter"
    /\ UNCHANGED <<site_anchors, redditVars>>
    /\ UNCHANGED <<url, original_url, visited_urls, child_urls, web, fetched,
                   csvfile, writes, exc>>

\* crawl_page, lines 18-20.
Enter ==
    /\ pc = "enter"
    /\ visited_urls' = VisitedAdd(visited_urls, Top.url)
    /\ pc' = "get"
    /\ UNCHANGED <<site_anchors, redditVars>>
    /\ UNCHANGED <<url, original_url, child_urls, stack, web, fetched,
                   csvfile, writes, exc>>

\* crawl_page, lines 23-27: the GET returns a response, which is parsed.
GetOk ==
    /\ pc = "get"
    /\ \E p \in PageChoices(Top.url) :
          /\ p.ok
          /\ web' = IF Top.url \in DOMAIN web THEN web ELSE web @@ (Top.url :> p)
    /\ fetched' = Append(fetched, Top.url)
    /\ pc' = "loop"
    /\ UNCHANGED <<site_anchors, redditVars>>
    /\ UNCHANGED <<url, original_url, visited_urls, child_urls, stack,
                   csvfile, writes, exc>>

\* crawl_page, line 23: requests.get raises; nothing in the script catches it.
GetFail ==
    /\ pc = "get"
    /\ \E p \in PageChoices(Top.url) :
          /\ ~p.ok
          /\ web' = IF Top.url \in DOMAIN web THEN web ELSE web @@ (Top.url :> p)
    /\ fetched' = Append(fetched, Top.url)
    /\ Raise("RequestException")
    /\ UNCHANGED <<site_anchors, redditVars>>
    /\ UNCHANGED <<url, original_url, visited_urls, child_urls, csvfile, writes>>

\* Lines 31-34: the anchor has no href attribute.
AnchorRaises ==
    /\ AtAnchor
    /\ HrefCheck(CurAnchor) = "AttributeError"
    /\ Raise("AttributeError")
    /\ UNCHANGED <<site_anchors, redditVars>>
    /\ UNCHANGED <<url, original_url, visited_urls, child_urls, web, fetched,
                   csvfile, writes>>

\* Lines 31-34: the condition is false, the loop goes to the next anchor.
AnchorRejected ==
    /\ AtAnchor
    /\ HrefCheck(CurAnchor) = "reject"
    /\ Advance
    /\ UNCHANGED <<site_anchors, redditVars>>
    /\ UNCHANGED <<pc, url, original_url, visited_urls, child_urls, web, fetched,
                   csvfile, writes, exc>>

\* Lines 36-41: the absolute URL does not start with original_url.
AnchorOutOfScope ==
    /\ AtAnchor
    /\ HrefCheck(CurAnchor) = "accept"
    /\ ~InScope(CurAbsolute, original_url)
    /\ Advance
    /\ UNCHANGED <<site_anchors, redditVars>>
    /\ UNCHANGED <<pc, url, original_url, visited_urls, child_urls, web, fetched,
                   csvfile, writes, exc>>

\* Lines 36-43: the absolute URL is in visited_urls already.
AnchorVisited ==
    /\ AtAnchor
    /\ HrefCheck(CurAnchor) = "accept"
    /\ InScope(CurAbsolute, original_url)
    /\ AlreadyVisited(CurAbsolute, visited_urls, child_urls)
    /\ Advance
    /\ UNCHANGED <<site_anchors, redditVars>>
    /\ UNCHANGED <<pc, url, original_url, visited_urls, child_urls, web, fetched,
                   csvfile, writes, exc>>

\* Lines 36-49: the URL is appended and crawl_page is called for it; the loop
\* of this call goes on when that call has returned.
AnchorDescend ==
    /\ AtAnchor
    /\ HrefCheck(CurAnchor) = "accept"
    /\ InScope(CurAbsolute, original_url)
    /\ ~AlreadyVisited(CurAbsolute, visited_urls, child_urls)
    /\ child_urls' = ChildAppend(child_urls, CurAbsolute)
    /\ stack' = Append([stack EXCEPT ![Len(stack)].i = @ + 1],
                       [url |-> CurAbsolute, i |-> 1])
    /\ pc' = "enter"
    /\ UNCHANGED <<site_anchors, redditVars>>
    /\ UNCHANGED <<url, original_url, visited_urls, web, fetched, csvfile,
                   writes, exc>>

\* The for loop of line 30 is exhausted: crawl_page returns to its caller.
Return ==
    /\ pc = "loop"
    /\ Top.i > Len(FindAll(TopPage))
    /\ stack' = SubSeq(stack, 1, Len(stack) - 1)
    /\ pc' = IF Len(stack) = 1 THEN "write" ELSE "loop"
    /\ UNCHANGED <<site_anchors, redditVars>>
    /\ UNCHANGED <<url, original_url, visited_urls, child_urls, web, fetched,
                   csvfile, writes, exc>>

\* main, lines 64-67.
WriteCsv ==
    /\ pc = "write"
    /\ csvfile' = [exists |-> TRUE, rows |-> CsvRows(child_urls)]
    /\ writes' = writes + 1
    /\ pc' = "done"
    /\ UNCHANGED <<site_anchors, redditVars>>
    /\ UNCHANGED <<url, original_url, visited_urls, child_urls, stack, web,
                   fetched, exc>>

CrawlerStart ==
    /\ pc = "main"
    /\ url \in StartUrls
    /\ original_url = url
    /\ visited_urls = {}
    /\ child_urls = <<>>
    /\ stack = <<>>
    /\ web = <<>>
    /\ fetched = <<>>
    /\ csvfile = [exists |-> FALSE, rows |-> <<>>]
    /\ writes = 0
    /\ exc = "none"

\* analyze-reddit-topic.py does not run in the crawler's specifications.
RedditIdle ==
    /\ rpc = "idle"
    /\ subreddit_names = <<>>
    /\ max_posts = 0
    /\ sub_idx = 0
    /\ post_idx = 0
    /\ posts_analyzed = 0
    /\ all_results = <<>>
    /\ output_file = [exists |-> FALSE, rows |-> <<>>]
    /\ accepted = <<>>
    /\ rexc = "none"

Init == CrawlerStart /\ site_anchors = Anchors /\ RedditIdle

\* The same program on sites made of the core anchors only.
CoreInit == CrawlerStart /\ site_anchors = CoreAnchors /\ RedditIdle

Next ==
    \/ Main
    \/ Enter
    \/ GetOk
    \/ GetFail
    \/ AnchorRaises
    \/ AnchorRejected
    \/ AnchorOutOfScope
    \/ AnchorVisited
    \/ AnchorDescend
    \/ Return
    \/ WriteCsv

Spec == Init /\ [][Next]_vars

\* The script is one thread: it takes its next step whenever it has one.
FairSpec == CoreInit /\ [][Next]_vars /\ WF_vars(Next)

----------------------------------------------------------------------------
(* The link graph the fetched pages define, stated without the crawler *)

\* A URL without its fragment: the key URLs are compared by.
WithoutFragment(u) ==
    IF \E k \in 1..Len(u) : u[k] = "#"
    THEN SubSeq(u, 1, (CHOOSE k \in 1..Len(u) :
                          u[k] = "#" /\ \A j \in 1..(k - 1) : u[j] # "#") - 1)
    ELSE u

\* An href the filter of the specification lets through.
Eligible(a) ==
    /\ a.has
    /\ a.href # <<>>
    /\ a.href[1] \in {"https://", "/"}

\* The URL anchor k of the fetched page u links to.
Target(u, k) == UrlJoin(u, WithoutFragment(web[u].anchors[k].href))

\* Anchor k of the fetched page u is a link to a URL under the start URL.
IsLink(u, k) ==
    /\ Eligible(web[u].anchors[k])
    /\ StartsWith(Target(u, k), url)

Links(u) ==
    IF u \in DOMAIN web /\ web[u].ok
    THEN {Target(u, k) : k \in {j \in 1..Len(web[u].anchors) : IsLink(u, j)}}
    ELSE {}

RECURSIVE Reach(_)
Reach(S) ==
    LET N == S \cup UNION {Links(u) : u \in S}
    IN  IF N = S THEN S ELSE Reach(N)

\* The URLs reachable from the start URL through links under the start URL.
Reachable == Reach({url})

\* Depth-first pre-order: the anchors k.. of page u, acc the walk so far.
RECURSIVE Walk(_, _, _)
Walk(u, k, acc) ==
    IF ~(u \in DOMAIN web /\ web[u].ok) \/ k > Len(web[u].anchors) THEN acc
    ELSE IF IsLink(u, k) /\ Target(u, k) \notin acc.seen
         THEN Walk(u, k + 1,
                   Walk(Target(u, k), 1,
                        [seen |-> acc.seen \cup {Target(u, k)},
                         order |-> Append(acc.order, Target(u, k))]))
         ELSE Walk(u, k + 1, acc)

PreOrder == Walk(url, 1, [seen |-> {url}, order |-> <<>>]).order

\* The fixtures of the specification's section 8, started at https://ex.com/.
CycleWeb ==
    (SiteRoot :> Page(<<Anchor(HrefB)>>)) @@ (PageB :> Page(<<Anchor(HrefRoot)>>))

DfsWeb ==
    (SiteRoot :> Page(<<Anchor(HrefB), Anchor(HrefAbsC)>>))
    @@ (PageB :> Page(<<Anchor(HrefD)>>))
    @@ (PageC :> Page(<<>>))
    @@ (PageD :> Page(<<>>))

Terminated == pc \in {"done", "crashed"}

----------------------------------------------------------------------------
(* Claims about the crawler *)

\* C1: every run of the crawler terminates, cyclic link graphs included; for
\* the graph A -> B -> A started at A the traversal completes and the list of
\* discovered URLs is exactly <<B>>.
C1_Terminates ==
    /\ <>Terminated
    /\ (url = SiteRoot /\ web = CycleWeb)
          ~> (pc = "done" /\ child_urls = <<PageB>>)

C1_Witness == pc = "done" /\ url = SiteRoot /\ web = CycleWeb /\ child_urls = <<PageB>>

\* C2: no URL appears twice in child_urls, and no two entries differ only by a
\* fragment: the entries are pairwise different without their fragments.
C2_NoDuplicates ==
    \A j, k \in 1..Len(child_urls) :
        j # k => WithoutFragment(child_urls[j]) # WithoutFragment(child_urls[k])

C2_Witness ==
    /\ pc = "done"
    /\ url = SiteRoot
    /\ web[SiteRoot].anchors = <<Anchor(HrefB), Anchor(HrefBDup)>>
    /\ child_urls = <<PageB>>

\* C3: child_urls is the depth-first pre-order of the link graph with the
\* anchors of a page in document order: at every moment it is the beginning of
\* the pre-order of the pages known so far, when the run completes it is the
\* whole pre-order, and for the graph A -> [B, C], B -> [D] it is <<B, D, C>>.
C3_DepthFirstOrder ==
    /\ StartsWith(PreOrder, child_urls)
    /\ pc = "done" => child_urls = PreOrder
    /\ (pc = "done" /\ url = SiteRoot /\ web = DfsWeb)
          => child_urls = <<PageB, PageD, PageC>>

C3_Witness ==
    pc = "done" /\ url = SiteRoot /\ web = DfsWeb /\ child_urls = <<PageB, PageD, PageC>>

\* C6: original_url is the start URL throughout, every URL in child_urls, in
\* visited_urls and every URL a GET was issued for starts with it.
C6_Scope ==
    /\ original_url = url
    /\ \A u \in Range(child_urls) \cup visited_urls \cup Range(fetched) :
          StartsWith(u, url)

C6_Witness ==
    /\ pc = "done"
    /\ Len(child_urls) >= 1
    /\ \E u \in DOMAIN web : \E k \in 1..Len(web[u].anchors) :
          /\ Eligible(web[u].anchors[k])
          /\ ~StartsWith(Target(u, k), url)

\* C7: when the run has ended, every URL reachable from the start URL through
\* links under the start URL has been fetched exactly once: a GET is issued
\* only for a URL that is in visited_urls, no URL is fetched twice, and no
\* reachable URL is left unfetched.
C7_AllFetchedOnce ==
    /\ NoDup(fetched)
    /\ Range(fetched) \subseteq visited_urls
    /\ pc = "get" => Top.url \in visited_urls /\ Top.url \notin Range(fetched)
    /\ Terminated => Range(fetched) = Reachable

\* What holds of C7 in the code: the same with "ended" read as "returned
\* from main"; a run that an exception ends leaves reachable URLs unfetched.
FetchedOnceWhenDone ==
    /\ NoDup(fetched)
    /\ Range(fetched) \subseteq visited_urls
    /\ pc = "get" => Top.url \in visited_urls /\ Top.url \notin Range(fetched)
    /\ pc = "done" => Range(fetched) = Reachable

\* C8: child_urls.csv is written exactly once per run, never while a
\* crawl_page call is active; when the run has ended it holds the header row
\* "Child URLs" followed by the entries of child_urls in their order.
C8_WrittenOncePerRun ==
    /\ writes <= 1
    /\ stack # <<>> => writes = 0
    /\ Terminated =>
          /\ writes = 1
          /\ csvfile.exists
          /\ csvfile.rows = <<"Child URLs">> \o child_urls

\* What holds of C8 in the code: the file is written when main reaches its
\* last lines and not otherwise; a run that an exception ends writes nothing.
WrittenOnceWhenDone ==
    /\ writes <= 1
    /\ (writes = 1) = (pc = "done")
    /\ csvfile.exists = (writes = 1)
    /\ stack # <<>> => writes = 0
    /\ pc = "done" =>
          /\ Len(csvfile.rows) = Len(child_urls) + 1
          /\ csvfile.rows[1] = "Child URLs"
          /\ \A k \in 1..Len(child_urls) : csvfile.rows[k + 1] = child_urls[k]

\* C9: the start URL is in visited_urls once crawl_page has run its first
\* lines, it is never in child_urls, and from the end of the traversal on
\* (also one an exception ended) the URLs of child_urls are exactly
\* visited_urls without the start URL.
C9_RootExcluded ==
    /\ url \notin Range(child_urls)
    /\ pc \notin {"main", "enter"} => url \in visited_urls
    /\ pc \in {"write", "done", "crashed"}
          => Range(child_urls) = visited_urls \ {url}

C9_Witness ==
    /\ pc = "done"
    /\ child_urls # <<>>
    /\ \E u \in DOMAIN web : u # url /\ url \in Links(u)

\* C4: when the GET of a URL fails, the URL stays in visited_urls and the run
\* is not ended by the failure: no exception leaves crawl_page.
C4_FetchFailureSurvived ==
    \A u \in DOMAIN web :
        ~web[u].ok => u \in visited_urls /\ pc # "crashed" /\ exc = "none"

\* An anchor whose href the claim C5 calls rejected: missing, empty, or
\* starting with neither "https://" nor "/".
Ineligible(a) == ~Eligible(a)

\* C5: an anchor whose href is missing, empty or starts with neither
\* "https://" nor "/" is skipped: nothing is appended, no call is made, no
\* error is raised and the loop is at the next anchor of the same page.
C5_IneligibleSkipped ==
    [][(AtAnchor /\ Ineligible(CurAnchor)) =>
          /\ pc' = "loop"
          /\ exc' = "none"
          /\ child_urls' = child_urls
          /\ stack' = [stack EXCEPT ![Len(stack)].i = @ + 1]]_vars

----------------------------------------------------------------------------
(* analyze-reddit-topic.py *)

\* What analyze_post's call of the model ends in: the text of the reply, by
\* what json.loads makes of it, or an exception of the client.
\*   json      the whole reply is JSON, of the value given
\*   embedded  the reply holds one {...} part that is JSON (an object)
\*   broken    the reply holds a {...} part that is not JSON
\*   prose     the reply holds no {...} part
\*   error     client.chat.completions.create raised
\* A value is [kind, has, status]: has are the keys of an object, the
\* elements of a list, the words of a string.
Value(kind, has, status) == [kind |-> kind, has |-> has, status |-> status]
EmptyDict == Value("dict", {}, "")

Objects ==
    {Value("dict", ks, st) :
        ks \in {{"summary"}, {"summary", "status"}, {"summary", "status", "question1"}},
        st \in {"feature_supported", "feature_not_supported"}}
    \cup {EmptyDict}

JsonValues ==
    Objects \cup {Value("list", {"summary", "status"}, ""), Value("list", {}, ""),
                  Value("str", {"summary", "status"}, ""), Value("int", {}, "")}

Replies ==
    {[how |-> "json", value |-> v] : v \in JsonValues}
    \cup {[how |-> "embedded", value |-> v] : v \in Objects}
    \cup {[how |-> h, value |-> EmptyDict] : h \in {"broken", "prose", "error"}}

\* parse_openai_response (lines 102-120).
ParseOpenaiResponse(reply) ==
    IF reply.how \in {"json", "embedded"} THEN reply.value ELSE EmptyDict

\* analyze_post (lines 87-100).
AnalyzePost(reply) ==
    IF reply.how = "error" THEN EmptyDict ELSE ParseOpenaiResponse(reply)

\* bool(analysis): an int stands for a number other than 0.
Truthy(analysis) == analysis.kind = "int" \/ analysis.has # {}

\* The condition of line 146:
\* analysis and "summary" in analysis and "status" in analysis.
AcceptTest(analysis) ==
    IF ~Truthy(analysis) THEN "false"
    ELSE IF analysis.kind = "int" THEN "TypeError"
    ELSE IF {"summary", "status"} \subseteq analysis.has THEN "true"
    ELSE "false"

\* create_result_dict (lines 155-178), for an analysis that is an object.
CreateResultDict(subreddit_name, post, analysis) ==
    [subreddit |-> subreddit_name,
     post |-> post,
     status |-> analysis.status,
     questions |->
        IF analysis.status \in {"feature_not_supported",
                                "feature_supported_but_not_easy_to_use"}
        THEN analysis.has \cap {"question1", "question2", "question3"}
        ELSE {}]

\* update_files (lines 180-187): the file is truncated and holds the list.
UpdateFiles(results) == [exists |-> TRUE, rows |-> results]

SubredditName == subreddit_names[sub_idx]
\* subreddit.new(limit=None) yields one more post.
PostYielded == rpc = "posts" /\ post_idx < MaxFeed
ThisPost == <<sub_idx, post_idx + 1>>

\* Line 132-134: the outer loop takes the next subreddit.
NextSubreddit ==
    /\ rpc = "subs"
    /\ sub_idx <= Len(subreddit_names)
    /\ posts_analyzed' = 0
    /\ post_idx' = 0
    /\ rpc' = "posts"
    /\ UNCHANGED <<subreddit_names, max_posts, sub_idx, all_results, output_file,
                   accepted, rexc, crawlerVars>>

\* Line 132: the outer loop is exhausted and analyze_reddit_topics returns.
Finish ==
    /\ rpc = "subs"
    /\ sub_idx > Len(subreddit_names)
    /\ rpc' = "done"
    /\ UNCHANGED <<subreddit_names, max_posts, sub_idx, post_idx, posts_analyzed,
                   all_results, output_file, accepted, rexc, crawlerVars>>

\* Line 136: the subreddit has no more posts.
FeedEnds ==
    /\ rpc = "posts"
    /\ sub_idx' = sub_idx + 1
    /\ rpc' = "subs"
    /\ UNCHANGED <<subreddit_names, max_posts, post_idx, posts_analyzed,
                   all_results, output_file, accepted, rexc, crawlerVars>>

\* Lines 137-138: max_posts posts of this subreddit are recorded.
BreakAtMax ==
    /\ PostYielded
    /\ posts_analyzed >= max_posts
    /\ sub_idx' = sub_idx + 1
    /\ rpc' = "subs"
    /\ UNCHANGED <<subreddit_names, max_posts, post_idx, posts_analyzed,
                   all_results, output_file, accepted, rexc, crawlerVars>>

\* Lines 140-153: the analysis passes the test and is an object.
PostAccepted ==
    /\ PostYielded
    /\ posts_analyzed < max_posts
    /\ \E reply \in Replies :
          LET analysis == AnalyzePost(reply)
              results == Append(all_results,
                                CreateResultDict(SubredditName, ThisPost, analysis))
          IN  /\ AcceptTest(analysis) = "true"
              /\ analysis.kind = "dict"
              /\ all_results' = results
              /\ output_file' = UpdateFiles(results)
    /\ posts_analyzed' = posts_analyzed + 1
    /\ accepted' = Append(accepted, ThisPost)
    /\ post_idx' = post_idx + 1
    /\ UNCHANGED <<rpc, subreddit_names, max_posts, sub_idx, rexc, crawlerVars>>

\* Lines 140-146: the analysis fails the test.
PostRejected ==
    /\ PostYielded
    /\ posts_analyzed < max_posts
    /\ \E reply \in Replies : AcceptTest(AnalyzePost(reply)) = "false"
    /\ post_idx' = post_idx + 1
    /\ UNCHANGED <<rpc, subreddit_names, max_posts, sub_idx, posts_analyzed,
                   all_results, output_file, accepted, rexc, crawlerVars>>

\* Line 146: "summary" in analysis raises for a number.
TestRaises ==
    /\ PostYielded
    /\ posts_analyzed < max_posts
    /\ \E reply \in Replies : AcceptTest(AnalyzePost(reply)) = "TypeError"
    /\ rpc' = "crashed"
    /\ rexc' = "TypeError"
    /\ post_idx' = post_idx + 1
    /\ UNCHANGED <<subreddit_names, max_posts, sub_idx, posts_analyzed,
                   all_results, output_file, accepted, crawlerVars>>

\* Lines 146-147 and 168: the analysis passes the test and is a list or a
\* string, and analysis["summary"] raises in create_result_dict.
CreateRaises ==
    /\ PostYielded
    /\ posts_analyzed < max_posts
    /\ \E reply \in Replies :
          LET analysis == AnalyzePost(reply)
          IN  AcceptTest(analysis) = "true" /\ analysis.kind # "dict"
    /\ accepted' = Append(accepted, ThisPost)
    /\ rpc' = "crashed"
    /\ rexc' = "TypeError"
    /\ post_idx' = post_idx + 1
    /\ UNCHANGED <<subreddit_names, max_posts, sub_idx, posts_analyzed,
                   all_results, output_file, crawlerVars>>

\* get-all-child-pages.py does not run in the analyzer's specification.
CrawlerIdle ==
    /\ pc = "idle"
    /\ url = <<>>
    /\ original_url = <<>>
    /\ visited_urls = {}
    /\ child_urls = <<>>
    /\ stack = <<>>
    /\ site_anchors = {}
    /\ web = <<>>
    /\ fetched = <<>>
    /\ csvfile = [exists |-> FALSE, rows |-> <<>>]
    /\ writes = 0
    /\ exc = "none"

RedditInit ==
    /\ rpc = "subs"
    /\ subreddit_names \in {<<"AppSheet">>, <<"AppSheet", "glideapps">>}
    /\ max_posts \in 1..MaxMaxPosts
    /\ sub_idx = 1
    /\ post_idx = 0
    /\ posts_analyzed = 0
    /\ all_results = <<>>
    /\ output_file = [exists |-> FALSE, rows |-> <<>>]
    /\ accepted = <<>>
    /\ rexc = "none"
    /\ CrawlerIdle

RedditNext ==
    \/ NextSubreddit
    \/ Finish
    \/ FeedEnds
    \/ BreakAtMax
    \/ PostAccepted
    \/ PostRejected
    \/ TestRaises
    \/ CreateRaises

RedditSpec == RedditInit /\ [][RedditNext]_vars

\* C10: the output file holds exactly one result per post whose analysis
\* passed the test of line 146 (non-empty, with "summary" and "status"), in
\* the order the posts passed it and over all subreddits; at most max_posts
\* results are counted per subreddit.
C10_FileHoldsAccepted ==
    /\ output_file.rows = all_results
    /\ Len(all_results) = Len(accepted)
    /\ \A k \in 1..Len(accepted) : all_results[k].post = accepted[k]
    /\ posts_analyzed <= max_posts
    /\ output_file.exists = (accepted # <<>>)

====
